---------------------------- MODULE Spec2Model ----------------------------
(***************************************************************************)
(* Lead list of the sales CRM: the incremental lead fetch of the SalesLeads *)
(* page (first page, then an un-awaited background continuation), the      *)
(* role-based visibility filter it applies, the realtime-triggered refetch, *)
(* the in-place single-lead edits and the bulk operations of BulkActions,   *)
(* and the Login page that precedes it (handleLogin, handlePopupClose).    *)
(*                                                                         *)
(* The remote table is a sequence of rows, newest first (the order of      *)
(* created_at descending).  Page size and iteration cap are scaled down    *)
(* (batchSize, maxIterations); every formula is stated in terms of them.   *)
(***************************************************************************)
EXTENDS Integers, Sequences, FiniteSets, TLC

(* ------------------------------ bounds --------------------------------- *)

\* Rows per page: `const batchSize = 1000` (SalesLeads.tsx:84), scaled down.
batchSize == 2

\* Cap on background iterations: `const maxIterations = 100`
\* (SalesLeads.tsx:148), scaled down.
maxIterations == 3

\* Lead identities 1..MaxLeads exist in the concurrent specification.
MaxLeads == 3

\* Fetches that may be in progress at the same time.
MaxFetches == 2

\* Disturbances per run: store changes by other clients, failing requests
\* and handlers started by the user, taken together.
MaxEvents == 1

\* Login attempts per run.
MaxAttempts == 2

(* ------------------------------ values --------------------------------- *)

NULL == "null"

\* useState<any>(null): no profile loaded yet.
NoUser == [id |-> NULL, role |-> NULL, full_name |-> NULL]

Users == {"u1", "u2", "u3"}

Roles == {"admin", "desk", "manager", "agent", "guest"}

Statuses == {"new", "won"}

Min(a, b) == IF a < b THEN a ELSE b

Ids(s) == {s[i].id : i \in 1..Len(s)}

VARIABLES
  viewer,          \* the authenticated profile getCurrentUser() returns
  subordinates,    \* what the hierarchy query returns for the viewer
  store,           \* the remote leads table, newest first
  created,         \* lead identities handed out so far
  currentUser,     \* SalesLeads state: NoUser until initializeComponent ran
  leads,           \* SalesLeads state: the displayed collection
  loading,         \* SalesLeads state: the loading indicator
  refreshTrigger,  \* SalesLeads state
  effectSeen,      \* the dependencies the fetch effect last ran for
  task,            \* the fetchLeads invocations, by slot
  latest,          \* the slot of the most recently started fetch (0: none)
  toasts,          \* notifications shown, oldest first
  envs,            \* store changes made by other clients so far
  errors,          \* requests that failed so far
  isAdmin,         \* BulkActions state
  dataTableSelection, \* SalesLeads state: the identities of the selected rows
  selectedLeads,   \* SalesLeads state: the selected rows, as last reported
  op,              \* the edit or bulk handler in progress
  audit,           \* the lead_activities table
  mutReqs,         \* update and delete requests issued, oldest first
  ops,             \* handlers started so far
  observed,        \* history: what the merge of background pages has met
  login            \* the Login page: its state and its handler's position

vars == <<viewer, subordinates, store, created, currentUser, leads, loading,
          refreshTrigger, effectSeen, task, latest, toasts, envs, errors,
          isAdmin, dataTableSelection, selectedLeads, op, audit, mutReqs, ops,
          observed, login>>

Budget == envs + errors + ops < MaxEvents

\* A request of a fetch or of a handler may fail while failures are within
\* the bound, whatever else has been counted.
MayFail == errors < MaxEvents

profile == <<viewer, subordinates>>

table == <<store, created>>

handlerVars == <<isAdmin, dataTableSelection, selectedLeads, op, audit,
                 mutReqs, ops>>

\* Everything but the fetches, the display and the loading flag.
others == <<login, profile, table, currentUser, refreshTrigger, effectSeen, toasts,
            envs, errors, handlerVars>>

(* ------------------------------ the store ------------------------------ *)

Assignees == <<"u1", "u2", "u3", NULL>>

\* The row created with identity i: who it is assigned to and its desk vary
\* with i, so that every branch of the visibility filter meets rows it keeps
\* and rows it drops.
NewRow(i) ==
  [id |-> i,
   assigned_to |-> Assignees[((i - 1) % Len(Assignees)) + 1],
   desk |-> IF i % 3 = 0 THEN "d1" ELSE "d2",
   status |-> "new",
   is_converted |-> FALSE]

\* The table holding rows n, n-1, .., 1 (newest first).
RECURSIVE TableOf(_)
TableOf(n) == IF n = 0 THEN <<>> ELSE <<NewRow(n)>> \o TableOf(n - 1)

NotConverted(r) == ~r.is_converted

\* A query that takes the end of the range as exclusive.
QueryEndExclusive(off) ==
  LET rows == SelectSeq(store, NotConverted)
  IN  SubSeq(rows, off + 1, Min(off + batchSize - 1, Len(rows)))

\* .eq("is_converted", false).order("created_at", desc).range(off, off+batchSize-1)
Query(off) ==
  LET rows == SelectSeq(store, NotConverted)
  IN  SubSeq(rows, off + 1, Min(off + batchSize, Len(rows)))

(* ------------------------- the visibility filter ----------------------- *)

\* A first-page predicate that hides every lead from a role it does not know.
KeepFirstDenyingOthers(lead, subordinateIds) ==
  IF currentUser.role = "admin" THEN TRUE
  ELSE IF currentUser.role = "desk" THEN
         \/ lead.desk = currentUser.full_name
         \/ lead.assigned_to = currentUser.id
         \/ (lead.assigned_to # NULL /\ lead.assigned_to \in subordinateIds)
  ELSE IF currentUser.role = "manager" THEN
         \/ lead.assigned_to = currentUser.id
         \/ (lead.assigned_to # NULL /\ lead.assigned_to \in subordinateIds)
  ELSE IF currentUser.role = "agent" THEN lead.assigned_to = currentUser.id
  ELSE FALSE

\* A first-page predicate that also shows an agent the unassigned leads.
KeepFirstUnassignedToAgent(lead, subordinateIds) ==
  IF currentUser.role = "admin" THEN TRUE
  ELSE IF currentUser.role = "desk" THEN
         \/ lead.desk = currentUser.full_name
         \/ lead.assigned_to = currentUser.id
         \/ (lead.assigned_to # NULL /\ lead.assigned_to \in subordinateIds)
  ELSE IF currentUser.role = "manager" THEN
         \/ lead.assigned_to = currentUser.id
         \/ (lead.assigned_to # NULL /\ lead.assigned_to \in subordinateIds)
  ELSE IF currentUser.role = "agent" THEN
         lead.assigned_to = currentUser.id \/ lead.assigned_to = NULL
  ELSE TRUE

\* A first-page predicate whose desk case ignores the lead's desk.
KeepFirstIgnoringDesk(lead, subordinateIds) ==
  IF currentUser.role = "admin" THEN TRUE
  ELSE IF currentUser.role \in {"desk", "manager"} THEN
         \/ lead.assigned_to = currentUser.id
         \/ (lead.assigned_to # NULL /\ lead.assigned_to \in subordinateIds)
  ELSE IF currentUser.role = "agent" THEN lead.assigned_to = currentUser.id
  ELSE TRUE

\* The predicate of the first page's filter, by role (fetchLeads).
KeepFirst(lead, subordinateIds) ==
  IF currentUser.role = "admin" THEN TRUE
  ELSE IF currentUser.role = "desk" THEN
         \/ lead.desk = currentUser.full_name
         \/ lead.assigned_to = currentUser.id
         \/ (lead.assigned_to # NULL /\ lead.assigned_to \in subordinateIds)
  ELSE IF currentUser.role = "manager" THEN
         \/ lead.assigned_to = currentUser.id
         \/ (lead.assigned_to # NULL /\ lead.assigned_to \in subordinateIds)
  ELSE IF currentUser.role = "agent" THEN lead.assigned_to = currentUser.id
  ELSE TRUE

\* A background-page predicate that treats an admin as an agent.
KeepBatchAdminAsAgent(lead, subordinateIds) ==
  IF currentUser.role = "admin" THEN lead.assigned_to = currentUser.id
  ELSE KeepFirst(lead, subordinateIds)

\* A background-page predicate that gives a manager the desk's view.
KeepBatchManagerAsDesk(lead, subordinateIds) ==
  IF currentUser.role = "manager"
  THEN \/ lead.desk = currentUser.full_name
       \/ lead.assigned_to = currentUser.id
       \/ (lead.assigned_to # NULL /\ lead.assigned_to \in subordinateIds)
  ELSE KeepFirst(lead, subordinateIds)

\* The predicate of a background page's filter, by role (loadRemaining).
KeepBatch(lead, subordinateIds) ==
  IF currentUser.role = "admin" THEN TRUE
  ELSE IF currentUser.role = "desk" THEN
         \/ lead.desk = currentUser.full_name
         \/ lead.assigned_to = currentUser.id
         \/ (lead.assigned_to # NULL /\ lead.assigned_to \in subordinateIds)
  ELSE IF currentUser.role = "manager" THEN
         \/ lead.assigned_to = currentUser.id
         \/ (lead.assigned_to # NULL /\ lead.assigned_to \in subordinateIds)
  ELSE IF currentUser.role = "agent" THEN lead.assigned_to = currentUser.id
  ELSE TRUE

FilterFirstBatch(allLeads, subordinateIds) ==
  LET keep(l) == KeepFirst(l, subordinateIds) IN SelectSeq(allLeads, keep)

\* A background page passed on unfiltered.
FilterBatchKeepingAll(data, subordinateIds) == data

FilterBatch(data, subordinateIds) ==
  LET keep(l) == KeepBatch(l, subordinateIds) IN SelectSeq(data, keep)

\* A merge that appends the page without looking at the identities already
\* displayed.
MergeBatchAppending(prev, filteredBatch) == prev \o filteredBatch

\* A merge that lets the page's rows take the place of the displayed rows of
\* the same identity.
MergeBatchKeepingNewest(prev, filteredBatch) ==
  LET arriving == Ids(filteredBatch)
      stays(l) == l.id \notin arriving
  IN  SelectSeq(prev, stays) \o filteredBatch

\* The updater handed to setLeads for a background page.
MergeBatch(prev, filteredBatch) ==
  LET seen == Ids(prev)
      fresh(l) == l.id \notin seen
      newOnes == SelectSeq(filteredBatch, fresh)
  IN  IF Len(newOnes) = 0 THEN prev ELSE prev \o newOnes

(* ------------------------------ fetchLeads ----------------------------- *)

Slots == 1..MaxFetches

IdleTask ==
  [pc |-> "idle", offset |-> 0, iterations |-> 0, hasMore |-> TRUE,
   allLeads |-> <<>>, subordinateIds |-> {}, reqs |-> <<>>,
   served |-> FALSE, data |-> <<>>, shown |-> FALSE, returned |-> FALSE,
   short |-> FALSE, before |-> <<>>]

Free(g) == task[g].pc \in {"idle", "done"}

\* The slot a new invocation runs in: the lowest free one.
FreeSlot == CHOOSE g \in Slots : Free(g) /\ \A h \in Slots : Free(h) => g <= h

\* A fetchLeads that abandons the fetches still in progress when it starts.
fetchLeadsCancelling ==
  /\ currentUser # NoUser
  /\ \E g \in Slots : Free(g)
  /\ loading' = TRUE
  /\ leads' = <<>>
  /\ task' = [g \in Slots |->
                IF g = FreeSlot
                THEN [IdleTask EXCEPT !.pc = "first", !.reqs = <<0>>]
                ELSE IF Free(g) THEN task[g]
                     ELSE [task[g] EXCEPT !.pc = "done"]]
  /\ latest' = FreeSlot

\* fetchLeads up to its first await: loading on, display emptied, page one
\* requested.
fetchLeads ==
  /\ currentUser # NoUser
  /\ \E g \in Slots : Free(g)
  /\ loading' = TRUE
  /\ leads' = <<>>
  /\ task' = [task EXCEPT ![FreeSlot] =
                [IdleTask EXCEPT !.pc = "first", !.reqs = <<0>>,
                                 !.before = leads]]
  /\ latest' = FreeSlot

\* A loop head that lets one iteration more through than maxIterations.
loadRemainingLoopOneMore(t) ==
  IF t.hasMore /\ t.iterations <= maxIterations
  THEN [t EXCEPT !.iterations = @ + 1, !.reqs = Append(@, t.offset),
                 !.served = FALSE, !.data = <<>>, !.pc = "bg"]
  ELSE [t EXCEPT !.pc = "done", !.served = FALSE, !.data = <<>>,
                 !.before = <<>>]

\* The head of loadRemaining's while loop: another page is requested, or the
\* loop is left and loadRemaining ends.
loadRemainingLoop(t) ==
  IF t.hasMore /\ t.iterations < maxIterations
  THEN [t EXCEPT !.iterations = @ + 1, !.reqs = Append(@, t.offset),
                 !.served = FALSE, !.data = <<>>, !.pc = "bg"]
  ELSE [t EXCEPT !.pc = "done", !.served = FALSE, !.data = <<>>,
                 !.before = <<>>]

\* A fetchLeads that awaits loadRemaining: it has not returned while the
\* continuation runs.
AwaitLoadRemaining(t) ==
  [loadRemainingLoop([t EXCEPT !.iterations = 0]) EXCEPT !.returned = FALSE]

\* `loadRemaining();` is called and not awaited: it runs to its first await
\* and fetchLeads returns.
FireLoadRemaining(t) ==
  [loadRemainingLoop([t EXCEPT !.iterations = 0]) EXCEPT !.returned = TRUE]

\* The first page is filtered and displayed, then the continuation starts.
ShowFirst(g, t) ==
  LET t2 == FireLoadRemaining([t EXCEPT !.shown = TRUE, !.allLeads = <<>>])
  IN  /\ leads' = FilterFirstBatch(t.allLeads, t.subordinateIds)
      /\ task' = [task EXCEPT ![g] = t2]
      /\ loading' = IF t2.pc = "done" THEN FALSE ELSE loading

\* The store evaluates the page request a fetch has in flight; the rows it
\* selects then travel back while the table may go on changing.
ServePage(g) ==
  /\ task[g].pc \in {"first", "bg"} /\ ~task[g].served
  /\ task' = [task EXCEPT ![g] = [@ EXCEPT !.served = TRUE,
                                           !.data = Query(task[g].offset)]]
  /\ UNCHANGED <<others, leads, loading, latest, observed>>

\* A catch block that asks for page one again.
FetchFailedRetrying(g) ==
  /\ toasts' = Append(toasts, "Failed to fetch leads")
  /\ task' = [task EXCEPT ![g] = [@ EXCEPT !.reqs = Append(@, 0),
                                           !.served = FALSE, !.data = <<>>]]
  /\ UNCHANGED <<leads, loading>>

\* A catch block that leaves the loading flag as it is.
FetchFailedKeepingLoading(g) ==
  /\ toasts' = Append(toasts, "Failed to fetch leads")
  /\ task' = [task EXCEPT ![g] = [@ EXCEPT !.pc = "done", !.returned = TRUE,
                                           !.served = FALSE, !.data = <<>>,
                                           !.before = <<>>]]
  /\ UNCHANGED <<leads, loading>>

\* The catch block of fetchLeads.
FetchFailed(g) ==
  /\ toasts' = Append(toasts, "Failed to fetch leads")
  /\ loading' = FALSE
  /\ task' = [task EXCEPT ![g] = [@ EXCEPT !.pc = "done", !.returned = TRUE,
                                           !.served = FALSE, !.data = <<>>,
                                           !.before = <<>>]]
  /\ UNCHANGED leads

\* The response to the first page request arrives.
FirstPageReturn(g) ==
  /\ task[g].pc = "first"
  /\ \E err \in BOOLEAN :
       /\ IF err THEN MayFail ELSE task[g].served
       /\ errors' = IF err THEN errors + 1 ELSE errors
       /\ IF err
          THEN FetchFailed(g)
          ELSE LET t1 == [task[g] EXCEPT
                             !.allLeads = task[g].data,
                             !.offset = @ + batchSize,
                             !.short = Len(task[g].data) < batchSize]
               IN  /\ UNCHANGED toasts
                   /\ IF currentUser.role \in {"desk", "manager"}
                      THEN /\ task' = [task EXCEPT ![g] = [t1 EXCEPT !.pc = "subs"]]
                           /\ UNCHANGED <<leads, loading>>
                      ELSE ShowFirst(g, t1)
  /\ UNCHANGED <<login, profile, table, currentUser, refreshTrigger, effectSeen,
                 latest, envs, handlerVars, observed>>

\* getSubordinateIds() resolves.
getSubordinateIds == subordinates

SubordinatesReturn(g) ==
  /\ task[g].pc = "subs"
  /\ ShowFirst(g, [task[g] EXCEPT !.subordinateIds = getSubordinateIds])
  /\ UNCHANGED <<others, latest, observed>>

\* A loop body that goes on after a short page and stops on an empty one
\* only.
AfterBatchIgnoringShort(t, data) ==
  IF Len(data) > 0
  THEN [t EXCEPT !.offset = @ + batchSize,
                 !.short = @ \/ Len(data) < batchSize]
  ELSE [t EXCEPT !.hasMore = FALSE, !.short = TRUE]

\* A loop body that also stops when the filter has left nothing of the page.
AfterBatchStoppingOnHidden(t, data) ==
  IF Len(data) > 0 /\ Len(FilterBatch(data, t.subordinateIds)) > 0
  THEN [t EXCEPT !.offset = @ + batchSize,
                 !.hasMore = IF Len(data) < batchSize THEN FALSE ELSE @,
                 !.short = @ \/ Len(data) < batchSize]
  ELSE [t EXCEPT !.hasMore = FALSE, !.short = TRUE]

\* One pass of loadRemaining's loop body on the page the store returned.
AfterBatch(t, data) ==
  IF Len(data) > 0
  THEN [t EXCEPT !.offset = @ + batchSize,
                 !.hasMore = IF Len(data) < batchSize THEN FALSE ELSE @,
                 !.short = @ \/ Len(data) < batchSize]
  ELSE [t EXCEPT !.hasMore = FALSE, !.short = TRUE]

\* What the merge of the page `filteredBatch`, received by fetch g, meets:
\* rows that are displayed already, and a display that a later fetch has
\* written its first page to.
Met(g, err, filteredBatch) ==
  IF err \/ Len(filteredBatch) = 0 THEN {}
  ELSE {"deduped" : i \in {j \in 1..Len(filteredBatch) :
                              filteredBatch[j].id \in Ids(leads)}}
       \cup {"staleMerged" : i \in {j \in 1..Len(filteredBatch) :
                              /\ g # latest /\ task[latest].shown
                              /\ Len(leads) > 0
                              /\ filteredBatch[j].id \notin Ids(leads)}}

\* A loop that goes round again after a failed request, asking for the same
\* page.
BreakLoopRetrying(t) == loadRemainingLoop(t)

\* `if (error) { ...; break; }`: the loop is left and loadRemaining ends.
BreakLoop(t) ==
  [t EXCEPT !.pc = "done", !.served = FALSE, !.data = <<>>, !.before = <<>>]

\* The response to a background page request arrives.
BackgroundPageReturn(g) ==
  /\ task[g].pc = "bg"
  /\ \E err \in BOOLEAN :
       /\ IF err THEN MayFail ELSE task[g].served
       /\ errors' = IF err THEN errors + 1 ELSE errors
       /\ LET data == task[g].data
              filteredBatch == FilterBatch(data, task[g].subordinateIds)
              t2 == IF err THEN BreakLoop(task[g])
                    ELSE loadRemainingLoop(AfterBatch(task[g], data))
          IN  /\ leads' = IF ~err /\ Len(data) > 0 /\ Len(filteredBatch) > 0
                          THEN MergeBatch(leads, filteredBatch)
                          ELSE leads
              /\ task' = [task EXCEPT ![g] = t2]
              /\ loading' = IF t2.pc = "done" THEN FALSE ELSE loading
              /\ observed' = observed \cup Met(g, err, filteredBatch)
  /\ UNCHANGED <<login, profile, table, currentUser, refreshTrigger, effectSeen,
                 latest, toasts, envs, handlerVars>>

(* ------------------------------ handlers ------------------------------- *)

\* The realtime feed's INSERT and UPDATE handlers: setRefreshTrigger(prev + 1).
\* The channel exists once the viewer's profile is loaded.
Notified == IF currentUser # NoUser THEN refreshTrigger + 1 ELSE refreshTrigger

NoOp == [kind |-> "none", pc |-> "idle", ids |-> {}, val |-> NULL]

\* The elements of a set of identities, ascending.
RECURSIVE Ascending(_)
Ascending(S) ==
  IF S = {} THEN <<>>
  ELSE LET m == CHOOSE x \in S : \A y \in S : x <= y
       IN  <<m>> \o Ascending(S \ {m})

\* BulkActions.checkUserRole: the flag that gates deletion.
IsAdminFor(role) == role = "admin" \/ role = "desk"

checkUserRole ==
  /\ isAdmin # IsAdminFor(viewer.role)
  /\ isAdmin' = IsAdminFor(viewer.role)
  /\ UNCHANGED <<login, profile, table, currentUser, leads, loading, refreshTrigger,
                 effectSeen, task, latest, toasts, envs, errors,
                 dataTableSelection, selectedLeads, op, audit, mutReqs, ops,
                 observed>>

\* The users offered for assignment (fetchAvailableAgents, which mirrors
\* AssignAgentSelect), and "unassign".
AssignableUsers ==
  IF viewer.role = "admin" THEN Users
  ELSE IF viewer.role \in {"desk", "manager"} THEN {viewer.id} \cup subordinates
  ELSE {viewer.id}

\* A checkbox of the table is toggled; DataTable's effect on rowSelection
\* reports the selected rows of the data it holds.
ToggleRow ==
  /\ op = NoOp /\ Budget
  /\ \E id \in Ids(leads) :
       LET sel == IF id \in dataTableSelection
                  THEN dataTableSelection \ {id}
                  ELSE dataTableSelection \cup {id}
           picked(l) == l.id \in sel
       IN  /\ dataTableSelection' = sel
           /\ selectedLeads' = SelectSeq(leads, picked)
  /\ UNCHANGED <<login, profile, table, currentUser, leads, loading, refreshTrigger,
                 effectSeen, task, latest, toasts, envs, errors, isAdmin, op,
                 audit, mutReqs, ops, observed>>

clearSelections ==
  /\ dataTableSelection' = {}
  /\ selectedLeads' = <<>>

\* supabase.from("leads").update(..) / .delete() is issued for `ids`.
IssueMutation(kind, what, ids, val) ==
  /\ op = NoOp /\ Budget
  /\ op' = [kind |-> kind, pc |-> what, ids |-> ids, val |-> val]
  /\ mutReqs' = Append(mutReqs, [op |-> what, kind |-> kind, ids |-> ids])
  /\ ops' = ops + 1

\* SalesLeads.handleStatusChange(leadId, newStatus), to its first await.
handleStatusChange ==
  /\ \E leadId \in Ids(leads) : \E newStatus \in Statuses :
       IssueMutation("status", "update", {leadId}, newStatus)
  /\ UNCHANGED <<login, profile, table, currentUser, leads, loading, refreshTrigger,
                 effectSeen, task, latest, toasts, envs, errors, isAdmin,
                 dataTableSelection, selectedLeads, audit, observed>>

\* SalesLeads.handleAssignAgent(leadId, agentId), to its first await.
handleAssignAgent ==
  /\ \E leadId \in Ids(leads) : \E agentId \in AssignableUsers \cup {NULL} :
       IssueMutation("assign", "update", {leadId}, agentId)
  /\ UNCHANGED <<login, profile, table, currentUser, leads, loading, refreshTrigger,
                 effectSeen, task, latest, toasts, envs, errors, isAdmin,
                 dataTableSelection, selectedLeads, audit, observed>>

\* BulkActions.handleStatusChange(newStatus), to its first await.  The
\* component renders its controls only while rows are selected.
BulkHandleStatusChange ==
  /\ Len(selectedLeads) > 0
  /\ \E newStatus \in Statuses :
       IssueMutation("bulkStatus", "update", Ids(selectedLeads), newStatus)
  /\ UNCHANGED <<login, profile, table, currentUser, leads, loading, refreshTrigger,
                 effectSeen, task, latest, toasts, envs, errors, isAdmin,
                 dataTableSelection, selectedLeads, audit, observed>>

\* BulkActions.handleAssignAgent(agentId), to its first await.
BulkHandleAssignAgent ==
  /\ Len(selectedLeads) > 0
  /\ \E agentId \in AssignableUsers \cup {NULL} :
       IssueMutation("bulkAssign", "update", Ids(selectedLeads), agentId)
  /\ UNCHANGED <<login, profile, table, currentUser, leads, loading, refreshTrigger,
                 effectSeen, task, latest, toasts, envs, errors, isAdmin,
                 dataTableSelection, selectedLeads, audit, observed>>

\* BulkActions.handleDeleteLeads, to its first await: the isAdmin gate, the
\* confirmation dialog, the delete request.
handleDeleteLeads ==
  /\ Len(selectedLeads) > 0
  /\ op = NoOp /\ Budget
  /\ IF ~isAdmin
     THEN /\ toasts' = Append(toasts, "Only admins can delete leads")
          /\ ops' = ops + 1
          /\ UNCHANGED <<op, mutReqs>>
     ELSE \E confirmed \in BOOLEAN :
            IF confirmed
            THEN /\ IssueMutation("bulkDelete", "delete", Ids(selectedLeads), NULL)
                 /\ UNCHANGED toasts
            ELSE /\ ops' = ops + 1
                 /\ UNCHANGED <<op, mutReqs, toasts>>
  /\ UNCHANGED <<login, profile, table, currentUser, leads, loading, refreshTrigger,
                 effectSeen, task, latest, envs, errors, isAdmin,
                 dataTableSelection, selectedLeads, audit, observed>>

IsBulk(kind) == kind \in {"bulkStatus", "bulkAssign", "bulkDelete"}

\* The store applies update({status}) / update({assigned_to}) to the rows
\* whose identity is in `ids`.
ApplyUpdate(st, kind, ids, val) ==
  [i \in 1..Len(st) |->
     IF st[i].id \notin ids THEN st[i]
     ELSE IF kind \in {"status", "bulkStatus"}
          THEN [st[i] EXCEPT !.status = val]
          ELSE [st[i] EXCEPT !.assigned_to = val]]

FailureToast(kind) ==
  IF kind \in {"status", "bulkStatus"} THEN "Failed to update status"
  ELSE IF kind \in {"assign", "bulkAssign"} THEN "Failed to assign agent"
  ELSE "Failed to delete leads"

SuccessToast(kind, val) ==
  IF kind = "status" THEN "Status updated successfully"
  ELSE IF kind = "assign"
       THEN (IF val # NULL THEN "Lead assigned successfully"
             ELSE "Lead unassigned successfully")
  ELSE IF kind = "bulkStatus" THEN "Status updated for selected leads"
  ELSE IF kind = "bulkAssign"
       THEN (IF val # NULL THEN "Leads assigned successfully"
             ELSE "Leads unassigned successfully")
  ELSE "Leads deleted successfully"

\* A response handler that takes a failed update for done: the audit
\* inserts are issued all the same.
UpdateReturnIgnoringError ==
  /\ op.pc = "update"
  /\ \E err \in BOOLEAN :
       /\ err => MayFail
       /\ errors' = IF err THEN errors + 1 ELSE errors
       /\ store' = IF err THEN store
                   ELSE ApplyUpdate(store, op.kind, op.ids, op.val)
       /\ refreshTrigger' =
            IF ~err /\ \E i \in 1..Len(store) :
                         store[i].id \in op.ids /\ ~store[i].is_converted
            THEN Notified ELSE refreshTrigger
       /\ op' = [op EXCEPT !.pc = "audit"]
       /\ UNCHANGED toasts
  /\ UNCHANGED <<login, profile, created, currentUser, leads, loading, effectSeen,
                 task, latest, envs, isAdmin, dataTableSelection,
                 selectedLeads, audit, mutReqs, ops, observed>>

\* The response to an update request arrives: on an error the handler's
\* catch block runs; otherwise the audit inserts are issued.
UpdateReturn ==
  /\ op.pc = "update"
  /\ \E err \in BOOLEAN :
       /\ err => MayFail
       /\ errors' = IF err THEN errors + 1 ELSE errors
       /\ IF err
          THEN /\ toasts' = Append(toasts, FailureToast(op.kind))
               /\ op' = NoOp
               /\ UNCHANGED <<store, refreshTrigger>>
          ELSE /\ store' = ApplyUpdate(store, op.kind, op.ids, op.val)
               /\ refreshTrigger' =
                    IF \E i \in 1..Len(store) :
                         store[i].id \in op.ids /\ ~store[i].is_converted
                    THEN Notified ELSE refreshTrigger
               /\ op' = [op EXCEPT !.pc = "audit"]
               /\ UNCHANGED toasts
  /\ UNCHANGED <<login, profile, created, currentUser, leads, loading, effectSeen,
                 task, latest, envs, isAdmin, dataTableSelection,
                 selectedLeads, audit, mutReqs, ops, observed>>

AuditType(kind) ==
  IF kind \in {"status", "bulkStatus"} THEN "status_change" ELSE "assignment"

\* The lead_activities rows written when the inserts for `failed` fail.
AuditRows(kind, ids, failed) ==
  LET ok == Ascending(ids \ failed)
  IN  [i \in 1..Len(ok) |-> [lead_id |-> ok[i], type |-> AuditType(kind)]]

\* The updater handed to setLeads after a single-lead edit.
EditInPlace(prevLeads, kind, leadId, val) ==
  [i \in 1..Len(prevLeads) |->
     IF prevLeads[i].id # leadId THEN prevLeads[i]
     ELSE IF kind = "status" THEN [prevLeads[i] EXCEPT !.status = val]
          ELSE [prevLeads[i] EXCEPT !.assigned_to = val]]

\* A single-lead edit's audit insert settles.  An insert that resolves with
\* an error counts as done (the result is not looked at): success toast, then
\* the row is edited in the displayed collection.  An insert whose promise
\* rejects lands in the handler's catch block.
RowAuditReturn ==
  /\ op.pc = "audit" /\ ~IsBulk(op.kind)
  /\ \E failed \in SUBSET op.ids : \E rejected \in BOOLEAN :
       /\ failed # {} => MayFail
       /\ rejected => failed # {}
       /\ errors' = IF failed # {} THEN errors + 1 ELSE errors
       /\ audit' = audit \o AuditRows(op.kind, op.ids, failed)
       /\ IF rejected
          THEN /\ toasts' = Append(toasts, FailureToast(op.kind))
               /\ UNCHANGED leads
          ELSE /\ toasts' = Append(toasts, SuccessToast(op.kind, op.val))
               /\ leads' = EditInPlace(leads, op.kind,
                                       CHOOSE id \in op.ids : TRUE, op.val)
  /\ op' = NoOp
  /\ UNCHANGED <<login, profile, table, currentUser, loading, refreshTrigger,
                 effectSeen, task, latest, envs, isAdmin, dataTableSelection,
                 selectedLeads, mutReqs, ops, observed>>

\* onActionComplete: fetchLeads(); clearSelections()
onActionComplete ==
  /\ fetchLeads
  /\ clearSelections

\* Promise.all over a bulk update's audit inserts settles; the inserts of
\* `failed` fail, the others have written their rows.  When every insert
\* resolves (an error it resolves with is not looked at): success toast, then
\* onActionComplete.  When a failing insert's promise rejects, Promise.all
\* rejects and the handler's catch block runs.
BulkAuditReturn ==
  /\ op.pc = "audit" /\ IsBulk(op.kind)
  /\ \E failed \in SUBSET op.ids : \E rejected \in BOOLEAN :
       /\ failed # {} => MayFail
       /\ rejected => failed # {}
       /\ errors' = IF failed # {} THEN errors + 1 ELSE errors
       /\ audit' = audit \o AuditRows(op.kind, op.ids, failed)
       /\ IF rejected
          THEN /\ toasts' = Append(toasts, FailureToast(op.kind))
               /\ UNCHANGED <<leads, loading, task, latest,
                              dataTableSelection, selectedLeads>>
          ELSE /\ toasts' = Append(toasts, SuccessToast(op.kind, op.val))
               /\ onActionComplete
  /\ op' = NoOp
  /\ UNCHANGED <<login, profile, table, currentUser, refreshTrigger, effectSeen,
                 envs, isAdmin, mutReqs, ops, observed>>

\* The response to the delete request arrives.
DeleteReturn ==
  /\ op.pc = "delete"
  /\ \E err \in BOOLEAN :
       /\ err => MayFail
       /\ errors' = IF err THEN errors + 1 ELSE errors
       /\ IF err
          THEN /\ toasts' = Append(toasts, FailureToast(op.kind))
               /\ UNCHANGED <<store, leads, loading, task, latest,
                              dataTableSelection, selectedLeads>>
          ELSE /\ store' = SelectSeq(store, LAMBDA r : r.id \notin op.ids)
               /\ toasts' = Append(toasts, SuccessToast(op.kind, op.val))
               /\ onActionComplete
  /\ op' = NoOp
  /\ UNCHANGED <<login, profile, created, currentUser, refreshTrigger, effectSeen,
                 envs, isAdmin, audit, mutReqs, ops, observed>>

(* --------------------------- component effects ------------------------- *)

\* initializeComponent: the viewer's profile arrives.
InitializeComponent ==
  /\ currentUser = NoUser
  /\ currentUser' = viewer
  /\ UNCHANGED <<login, profile, table, leads, loading, refreshTrigger, effectSeen,
                 task, latest, toasts, envs, errors, handlerVars, observed>>

\* Dependencies of the fetch effect without the refresh trigger.
DepsWithoutTrigger == <<currentUser, 0>>

Deps == <<currentUser, refreshTrigger>>

\* useEffect(() => { if (currentUser) fetchLeads() },
\*           [currentUser, refreshTrigger, fetchLeads])
FetchEffect ==
  /\ Deps # effectSeen
  /\ effectSeen' = Deps
  /\ fetchLeads
  /\ UNCHANGED <<login, profile, table, currentUser, refreshTrigger, toasts, envs,
                 errors, handlerVars, observed>>

(* --------------------------- other clients ----------------------------- *)

\* Another client inserts a lead.
EnvInsert ==
  /\ Budget /\ created < MaxLeads
  /\ store' = <<NewRow(created + 1)>> \o store
  /\ created' = created + 1
  /\ refreshTrigger' = Notified
  /\ envs' = envs + 1
  /\ UNCHANGED <<login, profile, currentUser, leads, loading, effectSeen, task,
                 latest, toasts, errors, handlerVars, observed>>

\* Another client reassigns a lead: to the viewer, or away to somebody the
\* viewer has no tie to.
EnvUpdate ==
  /\ Budget
  /\ \E i \in 1..Len(store) : \E a \in {"u1", "u3"} :
       /\ ~store[i].is_converted /\ store[i].assigned_to # a
       /\ store' = [store EXCEPT ![i].assigned_to = a]
  /\ refreshTrigger' = Notified
  /\ envs' = envs + 1
  /\ UNCHANGED <<login, profile, created, currentUser, leads, loading, effectSeen,
                 task, latest, toasts, errors, handlerVars, observed>>

\* Another client converts a lead: the row leaves the query's result, and no
\* notification reaches the page (the converted row fails the feed's filter
\* is_converted=eq.false).
EnvConvert ==
  /\ Budget
  /\ \E i \in 1..Len(store) :
       /\ ~store[i].is_converted
       /\ store' = [store EXCEPT ![i].is_converted = TRUE]
  /\ envs' = envs + 1
  /\ UNCHANGED <<login, profile, created, currentUser, leads, loading, refreshTrigger,
                 effectSeen, task, latest, toasts, errors, handlerVars,
                 observed>>

(* ------------------------------ the login ------------------------------ *)

\* Everything of the SalesLeads page and its store: the Login page touches
\* none of it.
salesLeadsVars ==
  <<viewer, subordinates, store, created, currentUser, leads, loading,
    refreshTrigger, effectSeen, task, latest, toasts, envs, errors, isAdmin,
    dataTableSelection, selectedLeads, op, audit, mutReqs, ops, observed>>

\* The Login page as mounted: useState('') for the email and the password,
\* useState(false) for loading, useState(null) for the popup; no attempt
\* made.  `result`,
\* `logged` and `popups` are history: what signInWithPassword and the
\* log-login call of the current attempt came to, and how often the attempt
\* has called setPopup.
LoginIdle ==
  [pc |-> "idle", email |-> "", password |-> "", loading |-> FALSE, popup |-> NULL,
   result |-> NULL, logged |-> NULL, popups |-> 0, attempts |-> 0,
   navigated |-> FALSE]

\* The Login page left behind by a successful login: navigate('/') was
\* called and the application is shown.
SignedIn ==
  [LoginIdle EXCEPT !.email = "agent@crm", !.password = "right",
                    !.popup = "success",
                    !.result = "session", !.logged = "ok", !.popups = 1,
                    !.attempts = 1, !.navigated = TRUE]

\* An account that exists and one that does not.
Emails == {"agent@crm", "nobody@crm"}

Passwords == {"right", "wrong"}

\* What signInWithPassword may come to: a session, an error, neither, or a
\* rejected promise; a session only for the account's right password.
SignInResults(email, password) ==
  IF email = "agent@crm" /\ password = "right" THEN {"session", "noSession", "error", "rejected"}
  ELSE {"error", "rejected"}

\* What the log-login call may come to: an OK response, a non-OK response
\* with a JSON body, a non-OK response whose body does not parse, or a
\* network failure.
LogOutcomes == {"ok", "notOk", "notOkUnreadable", "networkError"}

\* The page is still there to take state updates: after navigate('/') it is
\* unmounted and its setters do nothing.
Mounted == ~login.navigated

\* setEmail from the email input, between attempts.
setEmail ==
  /\ Mounted /\ login.pc = "idle"
  /\ \E m \in Emails :
       /\ m # login.email
       /\ login' = [login EXCEPT !.email = m]
  /\ UNCHANGED salesLeadsVars

\* setPassword from the password input, between attempts.
setPassword ==
  /\ Mounted /\ login.pc = "idle"
  /\ \E p \in Passwords :
       /\ p # login.password
       /\ login' = [login EXCEPT !.password = p]
  /\ UNCHANGED salesLeadsVars

\* handleLogin to its first await: the form is submitted (the submit button
\* is disabled while loading, both inputs are required), setLoading(true),
\* signInWithPassword is called.
handleLogin ==
  /\ Mounted /\ ~login.loading /\ login.pc = "idle"
  /\ login.email # "" /\ login.password # ""
  /\ login.attempts < MaxAttempts
  /\ login' = [login EXCEPT !.pc = "signIn", !.loading = TRUE,
                            !.result = NULL, !.logged = NULL, !.popups = 0,
                            !.attempts = @ + 1]
  /\ UNCHANGED salesLeadsVars

\* The catch block and the finally block of handleLogin.
LoginFailed(l) ==
  IF l.navigated THEN [l EXCEPT !.pc = "idle"]
  ELSE [l EXCEPT !.pc = "idle", !.popup = "error", !.popups = @ + 1,
                 !.loading = FALSE]

\* signInWithPassword settles: with an error, without a session or rejected,
\* handleLogin throws into its catch block; with a session it goes on to the
\* log-login call.
signInReturn ==
  /\ login.pc = "signIn"
  /\ \E r \in SignInResults(login.email, login.password) :
       login' = IF r = "session"
                THEN [login EXCEPT !.pc = "log", !.result = r]
                ELSE LoginFailed([login EXCEPT !.result = r])
  /\ UNCHANGED salesLeadsVars

\* A handler whose popup depends on the log-login call.
PopupAfterLogStrict(out) == IF out = "ok" THEN "success" ELSE "error"

\* The popup shown once the log-login call has settled: the inner try/catch
\* only logs to the console, whatever the call came to.
PopupAfterLog(out) == "success"

\* The log-login call settles; setPopup, then the finally block.
logReturn ==
  /\ login.pc = "log"
  /\ \E out \in LogOutcomes :
       login' = IF login.navigated
                THEN [login EXCEPT !.pc = "idle", !.logged = out]
                ELSE [login EXCEPT !.pc = "idle", !.logged = out,
                                   !.popup = PopupAfterLog(out),
                                   !.popups = @ + 1, !.loading = FALSE]
  /\ UNCHANGED salesLeadsVars

\* handlePopupClose: the popup's button is pressed.
handlePopupClose ==
  /\ Mounted /\ login.popup # NULL
  /\ login' = IF login.popup = "success"
              THEN [login EXCEPT !.navigated = TRUE]
              ELSE [login EXCEPT !.popup = NULL]
  /\ UNCHANGED salesLeadsVars

(* ------------------------------ behaviours ----------------------------- *)

\* The page as mounted: no profile yet, nothing displayed, loading on.
InitPage ==
  /\ viewer \in {[id |-> "u1", role |-> r, full_name |-> "d1"] : r \in Roles}
  /\ subordinates = {"u2"}
  /\ currentUser = NoUser
  /\ leads = <<>>
  /\ loading = TRUE
  /\ refreshTrigger = 0
  /\ effectSeen = <<NoUser, 0>>
  /\ task = [g \in Slots |-> IdleTask]
  /\ latest = 0
  /\ toasts = <<>>
  /\ envs = 0
  /\ errors = 0
  /\ isAdmin = FALSE
  /\ dataTableSelection = {}
  /\ selectedLeads = <<>>
  /\ op = NoOp
  /\ audit = <<>>
  /\ mutReqs = <<>>
  /\ ops = 0
  /\ observed = {}

Init ==
  /\ InitPage
  /\ login = SignedIn
  /\ created \in (MaxLeads - 1)..MaxLeads
  /\ store = TableOf(created)

\* Tables of every size up to one page more than a fetch can read.
MaxRows == (maxIterations + 2) * batchSize

\* The table with the row of identity c converted (c = 0: none).
WithConverted(st, c) ==
  [i \in 1..Len(st) |-> IF st[i].id = c THEN [st[i] EXCEPT !.is_converted = TRUE]
                        ELSE st[i]]

\* One load of the page against a table that nobody changes.
InitOnce ==
  /\ InitPage
  /\ login = SignedIn
  /\ created \in 0..MaxRows
  /\ \E c \in {0, 2} : store = WithConverted(TableOf(created), c)

(* --------------------------- the page, loaded --------------------------- *)

\* The offsets a fetch requests from a table of n matching rows that nobody
\* changes, n below maxIterations * batchSize: page after page up to the
\* first that is not full, and a second page in any case.
OffsetsFor(n) ==
  [i \in 1..(IF n < batchSize THEN 2 ELSE (n \div batchSize) + 1) |->
     (i - 1) * batchSize]

\* The record of a fetch that has run to its end on the table TableOf(n).
LoadedTask(n) ==
  LET reqs == OffsetsFor(n)
      pages == (n + batchSize - 1) \div batchSize
  IN  [IdleTask EXCEPT
         !.pc = "done",
         !.offset = batchSize * (IF pages = 0 THEN 1 ELSE pages),
         !.iterations = Len(reqs) - 1,
         !.hasMore = FALSE,
         !.subordinateIds = IF currentUser.role \in {"desk", "manager"}
                            THEN getSubordinateIds ELSE {},
         !.reqs = reqs, !.shown = TRUE, !.returned = TRUE, !.short = TRUE]

\* The page once its first fetch has run to its end with no request failing
\* and nothing else has happened: the whole table read, the leads the viewer
\* may see displayed.
InitLoaded ==
  /\ login = SignedIn
  /\ viewer \in {[id |-> "u1", role |-> r, full_name |-> "d1"] : r \in Roles}
  /\ subordinates = {"u2"}
  /\ created = MaxLeads
  /\ store = TableOf(created)
  /\ currentUser = viewer
  /\ leads = FilterFirstBatch(store, getSubordinateIds)
  /\ loading = FALSE
  /\ refreshTrigger = 0
  /\ effectSeen = <<viewer, 0>>
  /\ task = [g \in Slots |-> IF g = 1 THEN LoadedTask(created) ELSE IdleTask]
  /\ latest = 1
  /\ toasts = <<>>
  /\ envs = 0
  /\ errors = 0
  /\ isAdmin = FALSE
  /\ dataTableSelection = {}
  /\ selectedLeads = <<>>
  /\ op = NoOp
  /\ audit = <<>>
  /\ mutReqs = <<>>
  /\ ops = 0
  /\ observed = {}

(* ----------------------- the filter on its own ------------------------- *)

\* The assignees of the leads a page is drawn from: the viewer, users the
\* viewer may manage, and nobody.
PageAssignees == {"u1", "u2", "u3", "u4", NULL}

PageDesks == {"d1", "d2"}

\* The leads assigned to u1, u2 and u4, on desks the viewer's name is not.
ScenarioAssignees == <<"u1", "u2", "u4">>

\* Pages of one lead up to as many leads as the scenario has.
PageLengths == 1..Len(ScenarioAssignees)

\* Every page of n leads; a lead's identity is its place in the page.
PagesOf(n) ==
  {[i \in 1..n |-> [id |-> i, assigned_to |-> f[i][1], desk |-> f[i][2],
                    status |-> "new", is_converted |-> FALSE]] :
     f \in [1..n -> PageAssignees \X PageDesks]}

\* A viewer of any role whose profile is loaded, any set of subordinates, and
\* any page of leads returned by the store; no fetch in progress.
InitFilter ==
  /\ login = SignedIn
  /\ viewer \in {[id |-> "u1", role |-> r, full_name |-> "d1"] : r \in Roles}
  /\ subordinates \in SUBSET {"u2", "u3", "u4"}
  /\ \E n \in PageLengths : store \in PagesOf(n)
  /\ created = Len(store)
  /\ currentUser = viewer
  /\ leads = <<>>
  /\ loading = TRUE
  /\ refreshTrigger = 0
  /\ effectSeen = <<NoUser, 0>>
  /\ task = [g \in Slots |-> IdleTask]
  /\ latest = 0
  /\ toasts = <<>>
  /\ envs = 0
  /\ errors = 0
  /\ isAdmin = FALSE
  /\ dataTableSelection = {}
  /\ selectedLeads = <<>>
  /\ op = NoOp
  /\ audit = <<>>
  /\ mutReqs = <<>>
  /\ ops = 0
  /\ observed = {}

\* The first-page filter is applied to the page and its result displayed.
ApplyFirstFilter ==
  /\ observed = {}
  /\ leads' = FilterFirstBatch(store, subordinates)
  /\ observed' = {"first"}
  /\ UNCHANGED <<others, loading, task, latest>>

\* The background-page filter is applied to the page and its result merged
\* into the empty display.
ApplyBatchFilter ==
  /\ observed = {}
  /\ leads' = MergeBatch(leads, FilterBatch(store, subordinates))
  /\ observed' = {"batch"}
  /\ UNCHANGED <<others, loading, task, latest>>

(* ------------------------ the merge on its own -------------------------- *)

\* The sequences of lead identities without repetition, the empty one
\* included: the rows of one query result, or of a display.
DistinctIds ==
  {s \in UNION {[1..n -> 1..MaxLeads] : n \in 0..MaxLeads} :
     \A i, j \in 1..Len(s) : s[i] = s[j] => i = j}

\* The rows of the given identities and status.
RowsOf(ids, status) ==
  [i \in 1..Len(ids) |-> [NewRow(ids[i]) EXCEPT !.status = status]]

\* Any display (its rows read some time ago) and any page that is not empty
\* (its rows as they are now); no fetch in progress.
InitMerge ==
  /\ login = SignedIn
  /\ viewer = [id |-> "u1", role |-> "admin", full_name |-> "d1"]
  /\ subordinates = {}
  /\ \E prev \in DistinctIds : leads = RowsOf(prev, "won")
  /\ \E page \in DistinctIds \ {<<>>} : store = RowsOf(page, "new")
  /\ created = MaxLeads
  /\ currentUser = viewer
  /\ loading = TRUE
  /\ refreshTrigger = 0
  /\ effectSeen = <<NoUser, 0>>
  /\ task = [g \in Slots |-> IdleTask]
  /\ latest = 0
  /\ toasts = <<>>
  /\ envs = 0
  /\ errors = 0
  /\ isAdmin = FALSE
  /\ dataTableSelection = {}
  /\ selectedLeads = <<>>
  /\ op = NoOp
  /\ audit = <<>>
  /\ mutReqs = <<>>
  /\ ops = 0
  /\ observed = {}

\* The page is merged into the display.
MergeOnce ==
  /\ observed = {}
  /\ leads' = MergeBatch(leads, store)
  /\ observed' = {"merged"}
  /\ UNCHANGED <<others, loading, task, latest>>

\* The same page is merged into the display a second time.
MergeAgain ==
  /\ observed = {"merged"}
  /\ leads' = MergeBatch(leads, store)
  /\ observed' = {"merged", "mergedTwice"}
  /\ UNCHANGED <<others, loading, task, latest>>

\* The steps of a fetch, from the effect that starts it to its last page.
FetchStep ==
  \/ InitializeComponent
  \/ FetchEffect
  \/ \E g \in Slots : ServePage(g)
  \/ \E g \in Slots : FirstPageReturn(g)
  \/ \E g \in Slots : SubordinatesReturn(g)
  \/ \E g \in Slots : BackgroundPageReturn(g)

\* What other clients do to the table.
EnvStep ==
  \/ EnvInsert
  \/ EnvUpdate
  \/ EnvConvert

\* The single-lead edits of the table's rows.
EditStep ==
  \/ handleStatusChange
  \/ handleAssignAgent
  \/ UpdateReturn
  \/ RowAuditReturn

\* Row selection and the bulk operations on the selected rows.
BulkStep ==
  \/ checkUserRole
  \/ ToggleRow
  \/ BulkHandleStatusChange
  \/ BulkHandleAssignAgent
  \/ handleDeleteLeads
  \/ UpdateReturn
  \/ BulkAuditReturn
  \/ DeleteReturn

Next == FetchStep \/ EnvStep \/ EditStep \/ BulkStep

Spec == Init /\ [][Next]_vars

\* One load of the page: a single fetch, the table unchanged throughout.
SpecOnce == InitOnce /\ [][FetchStep]_vars

\* The page with other clients at work and no user operation.
SpecFetch == Init /\ [][FetchStep \/ EnvStep]_vars

\* The page with single-lead edits.
SpecEdit == Init /\ [][FetchStep \/ EditStep]_vars

\* The page with row selection and bulk operations.
SpecBulk == Init /\ [][FetchStep \/ BulkStep]_vars

\* The role filter applied to pages of every content.
SpecFilter == InitFilter /\ [][ApplyFirstFilter \/ ApplyBatchFilter]_vars

\* The merge applied to displays and pages of every content.
SpecMerge == InitMerge /\ [][MergeOnce \/ MergeAgain]_vars

\* The bulk operations on the loaded page.
SpecLoaded == InitLoaded /\ [][BulkStep]_vars

\* The page of a desk user over a table that has room for one lead more.
InitDesk ==
  /\ Init
  /\ viewer.role = "desk"
  /\ created = MaxLeads - 1

\* The desk user's page with leads inserted by other clients and single-lead
\* edits.
SpecDesk == InitDesk /\ [][FetchStep \/ EnvInsert \/ EditStep]_vars

\* React runs a pending effect after the render that changed its
\* dependencies, an awaited call goes on when its promise settles, and every
\* request to the store is answered: each of these steps is taken once it
\* stays possible.
FetchFairness ==
  /\ WF_vars(InitializeComponent)
  /\ WF_vars(FetchEffect)
  /\ \A g \in Slots :
       /\ WF_vars(ServePage(g))
       /\ WF_vars(FirstPageReturn(g))
       /\ WF_vars(SubordinatesReturn(g))
       /\ WF_vars(BackgroundPageReturn(g))

\* The desk user's page with other clients at work, every pending step
\* eventually taken.
SpecNotify == InitDesk /\ [][FetchStep \/ EnvStep]_vars /\ FetchFairness

\* The single-lead edits and the bulk operations on the loaded page.
SpecOps == InitLoaded /\ [][EditStep \/ BulkStep]_vars

\* One load of the page, every pending step eventually taken.
SpecOnceFair == SpecOnce /\ FetchFairness

\* The Login page as mounted, before the application is shown.
InitLogin ==
  /\ InitPage
  /\ viewer.role = "admin"
  /\ created = 0
  /\ store = <<>>
  /\ login = LoginIdle

LoginStep ==
  \/ setEmail
  \/ setPassword
  \/ handleLogin
  \/ signInReturn
  \/ logReturn
  \/ handlePopupClose

\* The Login page; the sign-in call and the log-login call settle.
SpecLogin ==
  InitLogin /\ [][LoginStep]_vars
    /\ WF_vars(signInReturn) /\ WF_vars(logReturn)

(* ------------------------------- claims -------------------------------- *)

\* The subordinate set the hierarchy query yields for the viewer's role.
SubordinateSet ==
  IF viewer.role \in {"desk", "manager"} THEN subordinates ELSE {}

\* The visibility predicate of the viewer (role, identity, subordinate set).
VisibleTo(lead) ==
  CASE viewer.role = "admin" -> TRUE
    [] viewer.role = "desk" ->
         \/ lead.desk = viewer.full_name
         \/ lead.assigned_to = viewer.id
         \/ lead.assigned_to \in SubordinateSet
    [] viewer.role = "manager" ->
         \/ lead.assigned_to = viewer.id
         \/ lead.assigned_to \in SubordinateSet
    [] viewer.role = "agent" -> lead.assigned_to = viewer.id
    [] OTHER -> TRUE

\* The leads of the table that the query matches (is_converted = false).
Matching == SelectSeq(store, NotConverted)

\* A fetch that ran to its end with no request failing.
Finished(g) == task[g].pc = "done" /\ task[g].shown /\ errors = 0

\* C1: every displayed lead is not converted and satisfies the viewer's
\* visibility predicate, in every reachable state, single-lead edits of the
\* displayed rows included.
C1_DisplayedVisible ==
  \A i \in 1..Len(leads) : ~leads[i].is_converted /\ VisibleTo(leads[i])

\* C2: the displayed collection never holds two leads of the same identity.
C2_NoDuplicates ==
  \A i, j \in 1..Len(leads) : leads[i].id = leads[j].id => i = j

\* A background page that repeated a displayed row has been merged, and rows
\* of more than one page are displayed.
C2_Witness == "deduped" \in observed /\ Len(leads) > batchSize

\* C3: starting a fetch empties the display and requests page one, and it
\* leaves every other fetch in progress exactly as it was (no cancellation).
C3_NoCancellation ==
  [][\A g \in Slots :
       (task[g].pc # "first" /\ task'[g].pc = "first") =>
          /\ leads' = <<>>
          /\ task'[g].reqs = <<0>>
          /\ \A h \in Slots \ {g} : task'[h] = task[h]]_vars

\* A stale continuation's page was merged into a display that the newer
\* fetch had already written its first page to.
C3_Witness == "staleMerged" \in observed /\ Len(leads) > 0

\* C4 as claimed: a fetch issues at most maxIterations page requests, the
\* first included, none beyond offset maxIterations * batchSize - 1.
C4_AtMostCap ==
  \A g \in Slots :
    /\ Len(task[g].reqs) <= maxIterations
    /\ \A k \in 1..Len(task[g].reqs) :
         task[g].reqs[k] + batchSize - 1 <= maxIterations * batchSize - 1

\* C4 amended: a fetch issues at most maxIterations + 1 page requests (the
\* first page and maxIterations background pages); the last range requested
\* ends at offset (maxIterations + 1) * batchSize - 1.
C4_AtMostCapPlusOne ==
  \A g \in Slots :
    /\ Len(task[g].reqs) <= maxIterations + 1
    /\ \A k \in 1..Len(task[g].reqs) :
         task[g].reqs[k] + batchSize - 1 <= (maxIterations + 1) * batchSize - 1

\* A fetch stopped by the iteration cap, having issued maxIterations + 1
\* requests.
C4_Witness ==
  \E g \in Slots : /\ task[g].pc = "done" /\ task[g].hasMore
                   /\ Len(task[g].reqs) = maxIterations + 1

\* C5 as claimed: against an unchanged table of N matching leads, N below
\* the cap, a fetch issues exactly ceil(N / batchSize) page requests.
C5_CeilRequests ==
  \A g \in Slots :
    (Finished(g) /\ Len(Matching) < maxIterations * batchSize) =>
       Len(task[g].reqs) = (Len(Matching) + batchSize - 1) \div batchSize

\* C5 amended: it issues exactly floor(N / batchSize) + 1 page requests, and
\* never fewer than two.
C5_FloorPlusOneRequests ==
  \A g \in Slots :
    (Finished(g) /\ Len(Matching) < maxIterations * batchSize) =>
       Len(task[g].reqs) = IF Len(Matching) < batchSize THEN 2
                           ELSE (Len(Matching) \div batchSize) + 1

\* Two and a half pages of leads: three requests.
C5_Witness ==
  \E g \in Slots : /\ Finished(g)
                   /\ 2 * Len(Matching) = 5 * batchSize
                   /\ Len(task[g].reqs) = 3

\* C6: when one fetch against an unchanged table of at most
\* maxIterations * batchSize matching leads has finished with no request
\* failing, the display holds exactly the matching leads visible to the
\* viewer, each once, in the table's order.
C6_DisplaysVisibleLeads ==
  \A g \in Slots :
    (Finished(g) /\ Len(Matching) <= maxIterations * batchSize) =>
       leads = SelectSeq(Matching, VisibleTo)

\* A finished fetch that displays several pages of leads, having dropped
\* rows the viewer may not see and a converted row.
C6_Witness ==
  \E g \in Slots : /\ Finished(g)
                   /\ Len(leads) > batchSize
                   /\ Len(leads) < Len(Matching)
                   /\ Len(Matching) < Len(store)

\* C7: once a page of a fetch, the first included, has come back with fewer
\* rows than batchSize, that fetch has no further page request in flight.
C7_NoRequestAfterShortPage ==
  \A g \in Slots : task[g].short => task[g].pc # "bg"

\* C8: a fetch has written its first page to the display before it requests
\* a later page, and fetchLeads has returned while the continuation's
\* request is still in flight.
C8_FirstPageFirst ==
  \A g \in Slots :
    /\ Len(task[g].reqs) >= 2 => task[g].shown
    /\ task[g].pc \in {"first", "subs"} => Len(task[g].reqs) = 1
    /\ task[g].pc = "bg" => task[g].returned

\* The first page is displayed and fetchLeads has returned while the request
\* for the second page is in flight.
C8_Witness ==
  \E g \in Slots : /\ task[g].pc = "bg" /\ task[g].returned
                   /\ task[g].reqs = <<0, batchSize>>
                   /\ Len(leads) > 0 /\ loading

\* C9: a delete request is issued only for an actor whose role is admin.
C9_DeleteOnlyByAdmin ==
  \A i \in 1..Len(mutReqs) : mutReqs[i].op = "delete" => viewer.role = "admin"

\* C10: no bulk status change or bulk assignment issues its update request
\* for an actor whose role is agent.
C10_NoBulkUpdateByAgent ==
  \A i \in 1..Len(mutReqs) :
    mutReqs[i].kind \in {"bulkStatus", "bulkAssign"} => viewer.role # "agent"

\* One of the two role filters has been applied to the page in `store`.
FilterApplied == "first" \in observed \/ "batch" \in observed

AssignedToViewer(lead) == lead.assigned_to = viewer.id

AssignedToTeam(lead) ==
  lead.assigned_to = viewer.id \/ lead.assigned_to \in subordinates

OnDeskOrTeam(lead) == lead.desk = viewer.full_name \/ AssignedToTeam(lead)

\* C11: for a viewer whose role is none of admin, desk, manager, agent, the
\* first-page filter and the background-page filter keep every lead of the
\* page, in order.
C11_OtherRolesUnfiltered ==
  (FilterApplied /\ viewer.role \notin {"admin", "desk", "manager", "agent"})
     => leads = store

\* A viewer of an unknown role is shown a whole background page that holds a
\* lead assigned to somebody else on another desk.
C11_Witness ==
  /\ viewer.role = "guest" /\ "batch" \in observed
  /\ \E i \in 1..Len(store) :
       store[i].assigned_to = "u4" /\ store[i].desk # viewer.full_name
  /\ Len(leads) = Len(ScenarioAssignees)

\* C12: for an admin viewer both filters keep every lead of the page,
\* whatever its desk and assignee (null included) and whatever the
\* subordinate set.
C12_AdminSeesAll ==
  (FilterApplied /\ viewer.role = "admin") => leads = store

\* An admin with no subordinates is shown a first page with an unassigned
\* lead of another desk in it.
C12_Witness ==
  /\ viewer.role = "admin" /\ "first" \in observed /\ subordinates = {}
  /\ \E i \in 1..Len(leads) :
       leads[i].assigned_to = NULL /\ leads[i].desk # viewer.full_name
  /\ Len(leads) > 1

\* C13: for an agent viewer both filters keep exactly the leads assigned to
\* the viewer, whatever the desk and the subordinate set; an unassigned lead
\* is never kept.
C13_AgentSeesOwn ==
  (FilterApplied /\ viewer.role = "agent")
     => leads = SelectSeq(store, AssignedToViewer)

\* An agent's page holds an own lead, an unassigned lead of the viewer's desk
\* and a lead of a user in the subordinate set: only the first is kept.
C13_Witness ==
  /\ viewer.role = "agent" /\ "batch" \in observed
  /\ \E i, j, k \in 1..Len(store) :
       /\ store[i].assigned_to = viewer.id
       /\ store[j].assigned_to = NULL /\ store[j].desk = viewer.full_name
       /\ store[k].assigned_to \in subordinates
  /\ Len(leads) = 1

\* C14: for a manager viewer both filters keep exactly the leads assigned to
\* the viewer or to a member of the subordinate set; the desk never matters.
C14_ManagerSeesTeam ==
  (FilterApplied /\ viewer.role = "manager")
     => leads = SelectSeq(store, AssignedToTeam)

\* Manager u1 with subordinates u2 and u3, leads assigned to u1, u2 and u4,
\* all on the viewer's desk: the leads of u1 and u2 are kept.
C14_Witness ==
  /\ viewer.role = "manager" /\ FilterApplied
  /\ subordinates = {"u2", "u3"}
  /\ Len(store) = Len(ScenarioAssignees)
  /\ \A i \in 1..Len(store) :
       /\ store[i].assigned_to = ScenarioAssignees[i]
       /\ store[i].desk = viewer.full_name
  /\ Ids(leads) = {1, 2}

\* C15: for a desk viewer both filters keep exactly the leads whose desk is
\* the viewer's display name, or that are assigned to the viewer or to a
\* member of the subordinate set.
C15_DeskSeesDeskAndTeam ==
  (FilterApplied /\ viewer.role = "desk")
     => leads = SelectSeq(store, OnDeskOrTeam)

\* A desk viewer's first page holds a stranger's lead on the viewer's desk
\* (kept), a stranger's lead on another desk (dropped) and a subordinate's
\* lead on another desk (kept).
C15_Witness ==
  /\ viewer.role = "desk" /\ "first" \in observed /\ "u4" \notin subordinates
  /\ \E i, j, k \in 1..Len(store) :
       /\ store[i].assigned_to = "u4" /\ store[i].desk = viewer.full_name
       /\ store[j].assigned_to = "u4" /\ store[j].desk # viewer.full_name
       /\ store[k].assigned_to \in subordinates
       /\ store[k].desk # viewer.full_name
       /\ Ids(leads) = {store[i].id, store[k].id}

BulkRunning == op # NoOp /\ IsBulk(op.kind)

\* C17: a bulk status change, assignment or deletion appends no audit record
\* when it issues its update/delete nor when that request fails, and when the
\* request succeeded it ends having attempted one audit record per selected
\* lead: with no audit write failing, one record per selected lead is
\* appended.
C17_AuditAfterMutation ==
  [][/\ (op = NoOp /\ op' # NoOp /\ IsBulk(op'.kind)) =>
          /\ op'.pc \in {"update", "delete"}
          /\ mutReqs' = Append(mutReqs, [op |-> op'.pc, kind |-> op'.kind,
                                         ids |-> Ids(selectedLeads)])
          /\ audit' = audit
     /\ (BulkRunning /\ op.pc \in {"update", "delete"}) => audit' = audit
     /\ (BulkRunning /\ op' = NoOp /\ errors' = errors
           /\ toasts' = Append(toasts, SuccessToast(op.kind, op.val))) =>
          /\ Len(audit') = Len(audit) + Cardinality(op.ids)
          /\ \A id \in op.ids :
               \E i \in (Len(audit) + 1)..Len(audit') : audit'[i].lead_id = id
    ]_vars

\* The same for the bulk status change and the bulk assignment alone.
C17_UpdatesAudited ==
  [][/\ (BulkRunning /\ op.pc = "update") => audit' = audit
     /\ (BulkRunning /\ op.kind # "bulkDelete" /\ op' = NoOp
           /\ errors' = errors
           /\ toasts' = Append(toasts, SuccessToast(op.kind, op.val))) =>
          /\ Len(audit') = Len(audit) + Cardinality(op.ids)
          /\ \A id \in op.ids :
               \E i \in (Len(audit) + 1)..Len(audit') : audit'[i].lead_id = id
    ]_vars

\* The loaded page is what a fetch of the table of MaxLeads rows leaves:
\* variable for variable, the state InitLoaded describes.
LoadedAsFetched ==
  (/\ task[1].pc = "done" /\ errors = 0
   /\ created = MaxLeads /\ store = TableOf(created)) =>
     /\ currentUser = viewer
     /\ leads = FilterFirstBatch(store, getSubordinateIds)
     /\ loading = FALSE
     /\ refreshTrigger = 0
     /\ effectSeen = <<viewer, 0>>
     /\ task = [g \in Slots |-> IF g = 1 THEN LoadedTask(created) ELSE IdleTask]
     /\ latest = 1
     /\ toasts = <<>> /\ envs = 0 /\ isAdmin = FALSE
     /\ dataTableSelection = {} /\ selectedLeads = <<>> /\ op = NoOp
     /\ audit = <<>> /\ mutReqs = <<>> /\ ops = 0 /\ observed = {}

\* C18: when the audit writes of a bulk status update whose store update
\* succeeded settle, some of them failing, every selected lead has the new
\* status, the records appended are those of the writes that succeeded (one
\* per lead, for selected leads only), and exactly one notification is
\* shown, the success one.
C18_AuditFailuresHidden ==
  [][(BulkRunning /\ op.kind = "bulkStatus" /\ op.pc = "audit" /\ op' = NoOp)
       => /\ \A i \in 1..Len(store') :
               store'[i].id \in op.ids => store'[i].status = op.val
          /\ Len(audit') >= Len(audit)
          /\ SubSeq(audit', 1, Len(audit)) = audit
          /\ \A i, j \in (Len(audit) + 1)..Len(audit') :
               /\ audit'[i].lead_id \in op.ids
               /\ audit'[i].type = "status_change"
               /\ audit'[i].lead_id = audit'[j].lead_id => i = j
          /\ toasts' = Append(toasts, "Status updated for selected leads")
    ]_vars

\* Three leads were selected and updated, the audit write of the second
\* failed, and the user was told the update succeeded.
C18_ResolvedScenario ==
  /\ Len(mutReqs) = 1 /\ mutReqs[1].kind = "bulkStatus"
  /\ mutReqs[1].ids = {1, 2, 3}
  /\ \A i \in 1..Len(store) : store[i].status = "won"
  /\ Len(audit) = 2 /\ Ids([i \in 1..2 |-> [id |-> audit[i].lead_id]]) = {1, 3}
  /\ toasts = <<"Status updated for selected leads">>

\* C19: when a page request of a fetch fails, the user is notified, the
\* fetch ends, and the display is what it was when that fetch began.
C19_LastKnownGood ==
  [][\A g \in Slots :
       (task[g].pc \in {"first", "bg"} /\ task'[g] # task[g]
          /\ errors' = errors + 1) =>
            /\ toasts' = Append(toasts, "Failed to fetch leads")
            /\ task'[g].pc = "done"
            /\ leads' = task[g].before]_vars

\* The case of the first page of a fetch started over a display that was
\* not empty.
C19_RefetchKeepsDisplay ==
  [][\A g \in Slots :
       (task[g].pc = "first" /\ task'[g] # task[g] /\ errors' = errors + 1
          /\ Len(task[g].before) > 0) =>
            leads' = task[g].before]_vars

\* C20: when a background page request fails, the continuation ends without
\* another request and the display is left exactly as it was.
C20_BackgroundFailureKeepsDisplay ==
  [][\A g \in Slots :
       (task[g].pc = "bg" /\ task'[g] # task[g] /\ errors' = errors + 1) =>
            /\ task'[g].pc = "done"
            /\ task'[g].reqs = task[g].reqs
            /\ leads' = leads]_vars

\* A continuation ended by a failed request, with more pages to come and
\* iterations to spare, and the leads merged so far still displayed.
C20_Witness ==
  \E g \in Slots :
    /\ task[g].pc = "done" /\ task[g].shown
    /\ task[g].hasMore /\ task[g].iterations < maxIterations
    /\ errors > 0
    /\ Len(leads) > 0


(* ----------------------------- no retry -------------------------------- *)

\* A fetch that a failed page request ended: its first page (nothing was
\* shown), or a background page (the loop was left with pages to come and
\* iterations to spare).
EndedByFailure(g) ==
  /\ task[g].pc = "done"
  /\ \/ ~task[g].shown
     \/ task[g].hasMore /\ task[g].iterations < maxIterations

\* The steps in which a request fails.
PageFails(g) ==
  task[g].pc \in {"first", "bg"} /\ task'[g] # task[g] /\ errors' = errors + 1

MutationFails ==
  op.pc \in {"update", "delete"} /\ op' # op /\ errors' = errors + 1

AuditFails == op.pc = "audit" /\ op' # op /\ errors' = errors + 1

\* No page request is issued, no fetch is started and no fetch is scheduled.
NoPageRequest ==
  /\ \A h \in Slots : task'[h].reqs = task[h].reqs
  /\ refreshTrigger' = refreshTrigger
  /\ effectSeen' = effectSeen

\* What a failure leaves behind, and where requests come from: a failed page
\* ends its fetch, a failed mutation or audit write ends its handler, and
\* none of them issues a request; a page request is the first of a fetch
\* that the effect or a finished bulk operation starts, or the next page
\* after a page that arrived; a mutation is issued by a handler the user
\* starts; audit records are written by the audit step of such a handler.
NoRequestFromFailure ==
  /\ \A g \in Slots : PageFails(g) =>
       /\ task'[g].pc = "done"
       /\ NoPageRequest
       /\ mutReqs' = mutReqs /\ audit' = audit /\ op' = op
  /\ MutationFails =>
       /\ op' = NoOp
       /\ NoPageRequest
       /\ mutReqs' = mutReqs /\ audit' = audit /\ store' = store
  /\ AuditFails =>
       /\ op' = NoOp
       /\ mutReqs' = mutReqs /\ store' = store
       /\ Len(audit') < Len(audit) + Cardinality(op.ids)
  /\ \A g \in Slots : task'[g].reqs # task[g].reqs =>
       \/ /\ task[g].pc \in {"idle", "done"}
          /\ task'[g].pc = "first" /\ task'[g].reqs = <<0>>
       \/ /\ task[g].pc \in {"first", "subs", "bg"}
          /\ errors' = errors
          /\ task'[g].reqs = Append(task[g].reqs, task'[g].offset)
          /\ \A i \in 1..Len(task[g].reqs) : task[g].reqs[i] < task'[g].offset
  /\ mutReqs' # mutReqs => op = NoOp /\ op' # NoOp
  /\ audit' # audit => op.pc = "audit"

\* A fetch starts.
FetchStarts(g) == task[g].pc \in {"idle", "done"} /\ task'[g].pc = "first"

\* C21 as stated: no request is retried automatically, and after a page
\* request has failed only an operation of the user has page one requested
\* again.
C21_OnlyUserRetries ==
  [][/\ NoRequestFromFailure
     /\ \A g \in Slots :
          (FetchStarts(g) /\ \E h \in Slots : EndedByFailure(h)) =>
             op.pc \in {"audit", "delete"}]_vars

\* C21, amended: no failure handler issues a request again; a request goes
\* out again only when a new fetch starts, by the fetch effect (the viewer
\* or the refresh trigger changed, which a realtime notification does with
\* no user action) or by a finished bulk operation, or when the user starts
\* a handler.
C21_NoAutomaticRetry ==
  [][/\ NoRequestFromFailure
     /\ \A g \in Slots : FetchStarts(g) =>
          \/ Deps # effectSeen /\ effectSeen' = Deps
          \/ op.pc \in {"audit", "delete"} /\ op' = NoOp]_vars

\* A page request has failed, its fetch is over, and nothing is in flight
\* or scheduled: no fetch in progress, no effect pending, no handler
\* running.
C21_Witness ==
  /\ \E h \in Slots : EndedByFailure(h)
  /\ \A g \in Slots : Free(g)
  /\ Deps = effectSeen
  /\ op = NoOp
  /\ toasts # <<>>


(* ------------------------- realtime notifications ----------------------- *)

\* A notification arrives: the feed's handler increments the refresh trigger.
NotificationArrives == refreshTrigger' # refreshTrigger

\* C22: a notification only increments the refresh trigger (its payload
\* touches neither the displayed collection nor any fetch); the fetch effect
\* answers a changed trigger by starting a fetch that empties the display
\* and requests page one; and every notification is eventually followed by
\* such a start.
C22_NotificationRefetches ==
  /\ [][NotificationArrives =>
          /\ refreshTrigger' = refreshTrigger + 1
          /\ leads' = leads /\ loading' = loading /\ task' = task]_vars
  /\ [][effectSeen' # effectSeen =>
          \E g \in Slots :
            /\ FetchStarts(g)
            /\ task'[g].reqs = <<0>> /\ task'[g].offset = 0
            /\ leads' = <<>> /\ loading']_vars
  /\ \A n \in 1..MaxEvents :
       (refreshTrigger = n) ~> (effectSeen[2] >= n)

\* A notification has arrived and the fetch it caused is waiting for page
\* one over the emptied display.
C22_Witness ==
  /\ refreshTrigger > 0 /\ effectSeen = Deps
  /\ task[latest].pc = "first" /\ task[latest].reqs = <<0>>
  /\ leads = <<>> /\ loading


(* ---------------------------- requested ranges -------------------------- *)

\* Rows k*batchSize + 1 .. (k+1)*batchSize of the matching leads, newest
\* first, as far as they exist: the range [k*batchSize, k*batchSize +
\* batchSize - 1] counted from 0.
RangeOf(k) ==
  LET n == Len(Matching) - k * batchSize
  IN  [j \in 1..(IF n < 0 THEN 0 ELSE Min(n, batchSize)) |->
         Matching[k * batchSize + j]]

\* C23: the k-th page request of a fetch (k from 0) has offset k * batchSize,
\* and what the store returns for it is exactly that range of the
\* non-converted leads, newest first.
C23_ContiguousRanges ==
  \A g \in Slots :
    /\ \A i \in 1..Len(task[g].reqs) : task[g].reqs[i] = (i - 1) * batchSize
    /\ task[g].served => task[g].data = RangeOf(Len(task[g].reqs) - 1)

\* The third request of a fetch has been answered with a full page.
C23_Witness ==
  \E g \in Slots :
    /\ Len(task[g].reqs) = 3 /\ task[g].served
    /\ Len(task[g].data) = batchSize


(* ------------------------ raw and filtered size ------------------------- *)

\* The response to the background request of fetch g arrives with data.
PageArrives(g) ==
  /\ task[g].pc = "bg" /\ task[g].served
  /\ task'[g] # task[g] /\ errors' = errors

NoneVisible(page) == \A i \in 1..Len(page) : ~VisibleTo(page[i])

\* C24: when a background page arrives, the continuation goes on exactly
\* when the page as returned is full (and the iteration cap is not reached),
\* whatever the filter leaves of it, and it then requests the next range; a
\* page of which the viewer may see nothing leaves the display as it was.
C24_RawSizeDecides ==
  [][\A g \in Slots : PageArrives(g) =>
       /\ task'[g].pc = "bg" <=>
            /\ Len(task[g].data) = batchSize
            /\ task[g].iterations < maxIterations
       /\ task'[g].pc = "bg" =>
            task'[g].reqs = Append(task[g].reqs, task[g].offset + batchSize)
       /\ task'[g].pc # "bg" =>
            task'[g].pc = "done" /\ task'[g].reqs = task[g].reqs
       /\ NoneVisible(task[g].data) => leads' = leads]_vars

\* A full background page of which the viewer may see nothing has arrived,
\* and the next page has been requested.
C24_Witness ==
  \E g \in Slots :
    /\ task[g].pc = "bg" /\ Len(task[g].reqs) >= 3
    /\ Len(RangeOf(Len(task[g].reqs) - 2)) = batchSize
    /\ NoneVisible(RangeOf(Len(task[g].reqs) - 2))


(* --------------------------- a failed update ---------------------------- *)

\* The update request of a status change or an assignment, of one lead or
\* of the selected leads, returns an error.
UpdateFails == op.pc = "update" /\ op' # op /\ errors' = errors + 1

\* C25: when the update request of a status change or an assignment fails,
\* the handler ends there: the table and the audit records are as they were,
\* so are the displayed collection and the selection, no fetch is started or
\* scheduled, and exactly one notification is added, the failure one.
C25_FailedUpdateStops ==
  [][UpdateFails =>
       /\ op' = NoOp
       /\ store' = store /\ audit' = audit /\ mutReqs' = mutReqs
       /\ leads' = leads
       /\ dataTableSelection' = dataTableSelection
       /\ selectedLeads' = selectedLeads
       /\ task' = task /\ loading' = loading
       /\ refreshTrigger' = refreshTrigger /\ effectSeen' = effectSeen
       /\ toasts' = Append(toasts, FailureToast(op.kind))
       /\ \A v \in AssignableUsers \cup Statuses \cup {NULL} :
            FailureToast(op.kind) # SuccessToast(op.kind, v)]_vars

\* The update of a bulk operation on two selected leads has failed: the
\* leads are still selected and displayed, nothing was audited, and the only
\* notification is the failure one.
C25_Witness ==
  /\ op = NoOp /\ errors = 1
  /\ Len(mutReqs) = 1 /\ IsBulk(mutReqs[1].kind) /\ mutReqs[1].op = "update"
  /\ Cardinality(dataTableSelection) = 2 /\ Len(selectedLeads) = 2
  /\ audit = <<>>
  /\ toasts = <<FailureToast(mutReqs[1].kind)>>


(* ------------------------- the loading indicator ------------------------ *)

\* A fetch with a page request outstanding, its subordinates awaited or its
\* background continuation unfinished.
InProgress(g) == task[g].pc \in {"first", "subs", "bg"}

\* C26: the loading indicator is on whenever some fetch is in progress.
C26_LoadingWhileFetching ==
  (\E g \in Slots : InProgress(g)) => loading


(* --------------------------- the settled page --------------------------- *)

\* Every fetch that was started has finished, with no request failed, and
\* the fetch effect has run for the latest notification.
Settled ==
  /\ latest # 0
  /\ \A g \in Slots : ~InProgress(g)
  /\ Deps = effectSeen
  /\ errors = 0

Rows(s) == {s[i] : i \in 1..Len(s)}

\* The leads of the table that the query matches and the viewer may see.
VisibleMatching == {r \in Rows(Matching) : VisibleTo(r)}

\* C27: once the page has settled, the displayed leads are exactly the
\* table's non-converted leads the viewer may see.  Stated for tables in
\* which no lead is converted, so that every change that preceded the
\* settling was notified and the latest fetch began after it.
C27_SettledDisplayCurrent ==
  (Settled /\ \A i \in 1..Len(store) : ~store[i].is_converted) =>
     Rows(leads) = VisibleMatching

\* The case of a lead left behind: the page has settled and displays a lead
\* that the viewer may not see as the table has it.
C27_StaleLeadLeft ==
  /\ Settled
  /\ "staleMerged" \in observed
  /\ \E i \in 1..Len(leads) : \E j \in 1..Len(store) :
       /\ store[j].id = leads[i].id /\ ~store[j].is_converted
       /\ ~VisibleTo(store[j])


(* ----------------------------- the selection ---------------------------- *)

\* C28: every selected lead handed to BulkActions and to the export is a
\* row of the displayed collection, identity and field values alike.
C28_SelectionDisplayed ==
  \A i \in 1..Len(selectedLeads) : selectedLeads[i] \in Rows(leads)

\* The case of a refetch by notification: no handler was started, another
\* client changed the table, the display was emptied and reloaded to its
\* end, and a lead that is no longer displayed is still selected.
C28_StaleSelection ==
  /\ ops = 0 /\ envs > 0 /\ Settled
  /\ \E i \in 1..Len(selectedLeads) : selectedLeads[i].id \notin Ids(leads)


(* ------------------------------ termination ----------------------------- *)

\* C29: with every request answered, a fetch that has started reaches its
\* end, and the step that ends it turns the loading indicator off.
C29_FetchTerminates ==
  \A g \in Slots : (task[g].pc = "first") ~> (task[g].pc = "done" /\ ~loading)

\* A fetch that the iteration cap ended: every page it got was full, it has
\* made maxIterations background requests, and loading is off.
C29_Witness ==
  \E g \in Slots :
    /\ task[g].pc = "done" /\ task[g].shown /\ errors = 0
    /\ task[g].hasMore /\ task[g].iterations = maxIterations
    /\ ~loading

\* The other ends of a fetch: a short or empty page, a failed first page, a
\* failed background page.
C29_EndedByShortPage ==
  \E g \in Slots : task[g].pc = "done" /\ ~task[g].hasMore /\ ~loading

C29_EndedByFirstPageFailure ==
  \E g \in Slots : task[g].pc = "done" /\ ~task[g].shown /\ ~loading

C29_EndedByBackgroundFailure ==
  \E g \in Slots :
    /\ task[g].pc = "done" /\ task[g].shown /\ errors > 0
    /\ task[g].hasMore /\ task[g].iterations < maxIterations /\ ~loading


(* ------------------------------- the login ------------------------------ *)

\* A login attempt comes to its end.
AttemptEnds == login.pc # "idle" /\ login'.pc = "idle"

\* C30: a login attempt that ends on the mounted page leaves loading false
\* and has set the popup exactly once, to success exactly when the sign-in
\* returned a session without error, whatever the log-login call came to;
\* navigation happens only by dismissing a success popup; dismissing an
\* error popup only closes it; and every attempt comes to its end.
C30_LoginOutcome ==
  /\ [][(AttemptEnds /\ Mounted) =>
          /\ ~login'.loading
          /\ login'.popups = 1
          /\ login'.popup \in {"success", "error"}
          /\ login'.popup = "success" <=> login'.result = "session"]_vars
  /\ [][login'.navigated # login.navigated =>
          /\ login.popup = "success"
          /\ login' = [login EXCEPT !.navigated = TRUE]]_vars
  /\ [][(login.popup = "error" /\ login'.popup = NULL) =>
          login' = [login EXCEPT !.popup = NULL]]_vars
  /\ (login.pc # "idle") ~> (login.pc = "idle")

\* A login whose log-login call failed on the network has ended with the
\* success popup and loading off.
C30_Witness ==
  /\ login.pc = "idle" /\ Mounted
  /\ login.result = "session" /\ login.logged = "networkError"
  /\ login.popup = "success" /\ ~login.loading

=============================================================================
